---- MODULE Spec2Model ----
(***************************************************************************)
(* MATLAB Workspace Viewer (VS Code extension).                            *)
(*                                                                         *)
(* The extension reads a JSON snapshot file written by a MATLAB session,   *)
(* shows one tree entry per variable record, and forwards text commands    *)
(* to a terminal whose name contains "matlab".                             *)
(*                                                                         *)
(* Text is modelled as sequences of one-character strings so that          *)
(* truncation, regular-expression matching and substring search are        *)
(* computed the way the code computes them.  Time is counted in ticks of   *)
(* TickMs milliseconds; every delay of the code is a multiple of it.       *)
(***************************************************************************)
EXTENDS Integers, Sequences, FiniteSets, TLC

(***************************************************************************)
(* Bounds of the model.                                                    *)
(***************************************************************************)
MaxVars == 3
MaxStrLen == 102

(***************************************************************************)
(* Text helpers.                                                           *)
(***************************************************************************)
Digits == <<"0", "1", "2", "3", "4", "5", "6", "7", "8", "9">>

DigitSet == {Digits[i] : i \in 1..10}

IsDigit(c) == c \in DigitSet

\* \s of the regular expression, for the characters the model uses
IsSpace(c) == c \in {" ", "\t"}

DigitVal(c) == (CHOOSE i \in 1..10 : Digits[i] = c) - 1

RECURSIVE NumToStr(_)
\* String(n) / template interpolation of a non-negative integer
NumToStr(n) == IF n < 10 THEN <<Digits[n + 1]>>
               ELSE NumToStr(n \div 10) \o <<Digits[(n % 10) + 1]>>

RECURSIVE ParseInt(_)
\* parseInt of a non-empty run of decimal digits
ParseInt(s) == IF Len(s) = 0 THEN 0
               ELSE 10 * ParseInt(SubSeq(s, 1, Len(s) - 1)) + DigitVal(s[Len(s)])

\* String.prototype.substring(0, n)
Substring0(s, n) == SubSeq(s, 1, IF n < Len(s) THEN n ELSE Len(s))

RECURSIVE JoinWith(_, _)
\* Array.prototype.join over already stringified elements
JoinWith(strs, sep) == IF Len(strs) = 0 THEN <<>>
                       ELSE IF Len(strs) = 1 THEN strs[1]
                       ELSE strs[1] \o sep \o JoinWith(Tail(strs), sep)

Ellipsis == <<".", ".", ".">>

CommaSpace == <<",", " ">>

S_char == <<"c", "h", "a", "r">>

S_string == <<"s", "t", "r", "i", "n", "g">>

S_double == <<"d", "o", "u", "b", "l", "e">>

S_int32 == <<"i", "n", "t", "3", "2">>

S_struct == <<"s", "t", "r", "u", "c", "t">>

S_cell == <<"c", "e", "l", "l">>

S_NoVariables == <<"N", "o", " ", "v", "a", "r", "i", "a", "b", "l", "e", "s", " ",
                   "i", "n", " ", "w", "o", "r", "k", "s", "p", "a", "c", "e">>

(***************************************************************************)
(* JSON values of the snapshot file.                                       *)
(*   t = "undef" (field absent), "null", "num", "str", "arr" or "obj";     *)
(*   n, s, a carry the number, the text or the array elements.             *)
(***************************************************************************)
JV(t, n, s, a) == [t |-> t, n |-> n, s |-> s, a |-> a]

JUndef == JV("undef", 0, <<>>, <<>>)

JNull == JV("null", 0, <<>>, <<>>)

JNum(n) == JV("num", n, <<>>, <<>>)

JStr(s) == JV("str", 0, s, <<>>)

JArr(a) == JV("arr", 0, <<>>, a)

JObj == JV("obj", 0, <<>>, <<>>)

\* One element of the `variables` array: a record {name,size,class,value?}
\* (t = "obj") or JSON null (t = "null").
VarRec(name, size, class, value) ==
    [t |-> "obj", name |-> name, size |-> size, class |-> class, value |-> value]

NullRec == [t |-> "null", name |-> <<>>, size |-> <<>>, class |-> <<>>, value |-> JUndef]

\* The snapshot file: absent, text that is no JSON, or a JSON document whose
\* top-level value has type `top` and, when an object, the field `variables`.
FileMissing == [kind |-> "missing", top |-> "none", variables |-> JUndef]

FileGarbage == [kind |-> "garbage", top |-> "none", variables |-> JUndef]

FileJson(top, variables) == [kind |-> "json", top |-> top, variables |-> variables]

\* JSON.stringify({ variables: [], timestamp: ... }) as written at startup
FileCleared == FileJson("obj", JArr(<<>>))

\* JavaScript truthiness, as used by `x || y` and `if (x)`
Truthy(v) == CASE v.t = "undef" -> FALSE
               [] v.t = "null" -> FALSE
               [] v.t = "num" -> v.n # 0
               [] v.t = "str" -> v.s # <<>>
               [] OTHER -> TRUE

\* String(val) for a number or a string
ToStr(v) == IF v.t = "num" THEN NumToStr(v.n) ELSE v.s

(***************************************************************************)
(* MatlabConnection.getWorkspaceVariables                                  *)
(* The result is [threw, val]: val is the returned value (a JV).           *)
(***************************************************************************)
Returned(v) == [threw |-> FALSE, val |-> v]

Thrown == [threw |-> TRUE, val |-> JUndef]

\* The body of the try block: an exception is JSON.parse failing or the
\* property access `data.variables` on null.
ReadSnapshot(f) ==
    IF f.kind = "missing" THEN Returned(JArr(<<>>))
    ELSE IF f.kind = "garbage" THEN Thrown
    ELSE IF f.top = "null" THEN Thrown
    ELSE LET variables == IF f.top = "obj" THEN f.variables ELSE JUndef
         IN  Returned(IF Truthy(variables) THEN variables ELSE JArr(<<>>))

\* A plausible bug: no catch around the read, the exception escapes
getWorkspaceVariablesNoCatch(wsFile, f) ==
    IF wsFile = "null" THEN Returned(JArr(<<>>)) ELSE ReadSnapshot(f)

getWorkspaceVariables(wsFile, f) ==
    IF wsFile = "null" THEN Returned(JArr(<<>>))
    ELSE LET r == ReadSnapshot(f)
         IN  IF r.threw THEN Returned(JArr(<<>>)) ELSE r

(***************************************************************************)
(* MatlabWorkspaceProvider.formatValue                                     *)
(***************************************************************************)
MaxArrayPreviewDefault == 5

TruncateAt == 100

KeepChars == 97

\* A plausible bug: the cut keeps as many characters as the threshold
formatValueKeep100(value, maxPreview) ==
    IF value.t \in {"undef", "null"} THEN <<>>
    ELSE IF value.t = "arr"
         THEN IF Len(value.a) > maxPreview
              THEN <<"[">> \o JoinWith([i \in 1..maxPreview |-> ToStr(value.a[i])], CommaSpace)
                           \o <<",", " ", ".", ".", ".", "]">>
              ELSE <<"[">> \o JoinWith([i \in 1..Len(value.a) |-> ToStr(value.a[i])], CommaSpace)
                           \o <<"]">>
    ELSE LET strVal == ToStr(value)
         IN  IF Len(strVal) > TruncateAt
             THEN Substring0(strVal, TruncateAt) \o Ellipsis
             ELSE strVal

formatValue(value, maxPreview) ==
    IF value.t \in {"undef", "null"} THEN <<>>
    ELSE IF value.t = "arr"
         THEN IF Len(value.a) > maxPreview
              THEN <<"[">> \o JoinWith([i \in 1..maxPreview |-> ToStr(value.a[i])], CommaSpace)
                           \o <<",", " ", ".", ".", ".", "]">>
              ELSE <<"[">> \o JoinWith([i \in 1..Len(value.a) |-> ToStr(value.a[i])], CommaSpace)
                           \o <<"]">>
    ELSE LET strVal == ToStr(value)
         IN  IF Len(strVal) > TruncateAt
             THEN Substring0(strVal, KeepChars) \o Ellipsis
             ELSE strVal

(***************************************************************************)
(* WorkspaceItem                                                           *)
(***************************************************************************)
\* Last index of the maximal run of digits that starts at i (i - 1 when the
\* run is empty): the greedy \d+
DigitRunEnd(s, i) ==
    CHOOSE j \in (i - 1)..Len(s) :
        /\ \A k \in i..j : IsDigit(s[k])
        /\ (j = Len(s) \/ ~IsDigit(s[j + 1]))

\* The same for white space: the greedy \s+
SpaceRunEnd(s, i) ==
    CHOOSE j \in (i - 1)..Len(s) :
        /\ \A k \in i..j : IsSpace(s[k])
        /\ (j = Len(s) \/ ~IsSpace(s[j + 1]))

\* /\[(\d+)\s+(\d+)\]/ matched with its "[" at position i
SizeMatchAt(s, i) ==
    IF i > Len(s) \/ s[i] # "[" THEN [ok |-> FALSE, rows |-> 0, cols |-> 0]
    ELSE LET d1 == DigitRunEnd(s, i + 1)
             w  == SpaceRunEnd(s, d1 + 1)
             d2 == DigitRunEnd(s, w + 1)
         IN  IF /\ d1 >= i + 1
                /\ w >= d1 + 1
                /\ d2 >= w + 1
                /\ d2 + 1 <= Len(s)
                /\ s[d2 + 1] = "]"
             THEN [ok |-> TRUE,
                   rows |-> ParseInt(SubSeq(s, i + 1, d1)),
                   cols |-> ParseInt(SubSeq(s, w + 1, d2))]
             ELSE [ok |-> FALSE, rows |-> 0, cols |-> 0]

\* this.size.match(/\[(\d+)\s+(\d+)\]/): the leftmost match, unanchored
SizeMatch(s) ==
    IF \E i \in 1..Len(s) : SizeMatchAt(s, i).ok
    THEN SizeMatchAt(s, CHOOSE i \in 1..Len(s) :
                            /\ SizeMatchAt(s, i).ok
                            /\ \A k \in 1..(i - 1) : ~SizeMatchAt(s, k).ok)
    ELSE [ok |-> FALSE, rows |-> 0, cols |-> 0]

\* `${this.size} ${this.type}`
SizeAndType(size, type) == size \o <<" ">> \o type

\* A plausible bug: the summary prints the two dimensions in the wrong order
getDescriptionSwapped(value, type, size) ==
    IF type = S_char \/ type = S_string
    THEN IF value # <<>> THEN value ELSE SizeAndType(size, type)
    ELSE LET m == SizeMatch(size)
         IN  IF value # <<>> /\ size # <<>> /\ m.ok
             THEN IF m.rows = 1 /\ m.cols = 1 /\ type # S_struct /\ type # S_cell
                  THEN value
                  ELSE NumToStr(m.cols) \o <<"x">> \o NumToStr(m.rows) \o <<" ">> \o type
             ELSE IF value # <<>> THEN value ELSE SizeAndType(size, type)

getDescription(value, type, size) ==
    IF type = S_char \/ type = S_string
    THEN IF value # <<>> THEN value ELSE SizeAndType(size, type)
    ELSE LET m == SizeMatch(size)
         IN  IF value # <<>> /\ size # <<>> /\ m.ok
             THEN IF m.rows = 1 /\ m.cols = 1 /\ type # S_struct /\ type # S_cell
                  THEN value
                  ELSE NumToStr(m.rows) \o <<"x">> \o NumToStr(m.cols) \o <<" ">> \o type
             ELSE IF value # <<>> THEN value ELSE SizeAndType(size, type)

\* new WorkspaceItem(label, state, variableName, value, type, size).
\* hasName is FALSE for the placeholder, which passes no variableName;
\* contextValue and description are set only when variableName is truthy.
WorkspaceItem(label, hasName, variableName, value, type, size) ==
    [label |-> label,
     hasName |-> hasName,
     variableName |-> variableName,
     value |-> value,
     type |-> type,
     size |-> size,
     contextValue |-> IF hasName /\ variableName # <<>> THEN "variable" ELSE "",
     hasDescription |-> hasName /\ variableName # <<>>,
     description |-> IF hasName /\ variableName # <<>>
                     THEN getDescription(value, type, size) ELSE <<>>]

\* A plausible bug: the placeholder is built like a variable entry
PlaceholderItemAsVariable ==
    WorkspaceItem(S_NoVariables, TRUE, S_NoVariables, <<>>, <<>>, <<>>)

\* new WorkspaceItem('No variables in workspace', None)
PlaceholderItem == WorkspaceItem(S_NoVariables, FALSE, <<>>, <<>>, <<>>, <<>>)

(***************************************************************************)
(* MatlabWorkspaceProvider.getChildren (root call, no element)             *)
(***************************************************************************)
\* variables.length: undefined (-1 here) for a number and for an object
\* without a length field
LengthOf(v) == CASE v.t = "arr" -> Len(v.a)
                 [] v.t = "str" -> Len(v.s)
                 [] OTHER -> -1

ItemOf(v) == WorkspaceItem(v.name, TRUE, v.name,
                           formatValue(v.value, MaxArrayPreviewDefault),
                           v.class, v.size)

\* A plausible bug: the map loses the last record
MapVariablesDropLast(a) == [i \in 1..(Len(a) - 1) |-> ItemOf(a[i])]

\* variables.map(v => new WorkspaceItem(...))
MapVariables(a) == [i \in 1..Len(a) |-> ItemOf(a[i])]

\* [status, items, vars]: status "threw" is a rejected promise; vars is what
\* getWorkspaceVariables returned.
getChildren(wsFile, f) ==
    LET r == getWorkspaceVariables(wsFile, f)
        variables == r.val
    IN  IF r.threw THEN [status |-> "threw", items |-> <<>>, vars |-> variables]
        ELSE IF LengthOf(variables) = 0
        THEN [status |-> "ok", items |-> <<PlaceholderItem>>, vars |-> variables]
        ELSE IF variables.t # "arr"      \* variables.map is not a function
        THEN [status |-> "threw", items |-> <<>>, vars |-> variables]
        ELSE IF \E i \in 1..Len(variables.a) : variables.a[i].t = "null"
                                         \* v.value of null
        THEN [status |-> "threw", items |-> <<>>, vars |-> variables]
        ELSE [status |-> "ok", items |-> MapVariables(variables.a), vars |-> variables]

(***************************************************************************)
(* Sample data: the snapshot contents the MATLAB session may write.        *)
(***************************************************************************)
Alphabet == <<"a", "b", "c", "d", "e", "f", "g">>

\* A text of n characters in which neighbouring positions differ
MakeStr(n) == [i \in 1..n |-> Alphabet[((i - 1) % Len(Alphabet)) + 1]]

\* mat2str(vars(i).size) of the helper script: "[r c]"
Mat2Str(dims) ==
    <<"[">> \o JoinWith([i \in 1..Len(dims) |-> NumToStr(dims[i])], <<" ">>) \o <<"]">>

N_x == <<"x">>

N_name == <<"n", "a", "m", "e">>

N_A == <<"A">>

N_v == <<"v">>

S_test == <<"t", "e", "s", "t">>

S_5 == <<"5">>

S_elements == <<"d", "o", "u", "b", "l", "e", " ", "[", "1", "2", " ", "e", "l", "e", "m", "e", "n", "t", "s", "]">>

RecX == VarRec(N_x, Mat2Str(<<1, 1>>), S_double, JStr(S_5))

RecName == VarRec(N_name, Mat2Str(<<1, 4>>), S_char, JStr(S_test))

RecA == VarRec(N_A, Mat2Str(<<3, 4>>), S_double, JStr(S_elements))

\* A variable may be named like a MATLAB function: all = 1
N_all == <<"a", "l", "l">>

RecAll == VarRec(N_all, Mat2Str(<<1, 1>>), S_double, JStr(<<"1">>))

SmallRecs == {RecX, RecName, RecA}

SampleDims == {<<1, 1>>, <<1, 5>>, <<5, 1>>, <<2, 3>>, <<12, 10>>}

SampleSizes == {Mat2Str(d) : d \in SampleDims} \cup {Mat2Str(<<2, 3, 4>>), <<>>}

TextClasses == {S_char, S_string}

NumericClasses == {S_double, S_int32}

SampleClasses == TextClasses \cup NumericClasses \cup {S_struct, S_cell}

SampleLengths == {1, 99, 100, 101, MaxStrLen}

SampleValues ==
    {JUndef, JNull, JStr(<<>>), JNum(0), JNum(5),
     JArr(<<JNum(1), JNum(2), JNum(3)>>),
     JArr(<<JNum(1), JNum(2), JNum(3), JNum(4), JNum(5), JNum(6)>>)}
    \cup {JStr(MakeStr(n)) : n \in SampleLengths}

RichRecs == {VarRec(N_v, size, class, value) :
                size \in SampleSizes, class \in SampleClasses, value \in SampleValues}

\* All sequences over S of length 0..n
SeqsUpTo(S, n) == UNION {[1..k -> S] : k \in 0..n}

WellFormedContents ==
    {FileJson("obj", JArr(a)) : a \in SeqsUpTo(SmallRecs, MaxVars)}
    \cup {FileJson("obj", JArr(<<r>>)) : r \in RichRecs}
    \cup {FileJson("obj", JArr(<<VarRec(<<>>, Mat2Str(<<1, 1>>), S_double, JStr(S_5))>>))}

\* Valid JSON of another shape than the helper script documents
OddContents ==
    {FileJson("null", JUndef), FileJson("num", JUndef), FileJson("str", JUndef),
     FileJson("arr", JUndef),
     FileJson("obj", JUndef), FileJson("obj", JNull),
     FileJson("obj", JNum(0)), FileJson("obj", JNum(5)),
     FileJson("obj", JStr(<<>>)), FileJson("obj", JStr(S_test)),
     FileJson("obj", JObj),
     FileJson("obj", JArr(<<NullRec>>)), FileJson("obj", JArr(<<RecX, NullRec>>))}

ViewContents == WellFormedContents \cup OddContents \cup {FileGarbage}

CmdContents ==
    {FileJson("obj", JArr(<<>>)), FileJson("obj", JArr(<<RecX, RecName, RecAll>>))}

\* What a previous session may have left behind
StaleFiles == {FileMissing, FileGarbage, FileJson("obj", JArr(<<RecA>>))}

WellFormed(f) ==
    /\ f.kind = "json"
    /\ f.top = "obj"
    /\ f.variables.t = "arr"
    /\ \A i \in 1..Len(f.variables.a) : f.variables.a[i].t = "obj"

(***************************************************************************)
(* State                                                                   *)
(***************************************************************************)
VARIABLES
    phase,            \* "inactive" before activate(), "active" after
    hasFolder,        \* vscode.workspace.workspaceFolders?.[0] is defined
    fileWritable,     \* fs.writeFileSync on the snapshot file succeeds
    extContent,       \* what the MATLAB session writes when it exports
    refreshInterval,  \* setting matlabWorkspace.refreshInterval, in ms
    workspaceFile,    \* MatlabConnection.workspaceFile: "null" or "set"
    file,             \* content of .vscode/matlab_workspace.json
    view,             \* the last root getChildren() call and what it read
    refreshPending,   \* onDidChangeTreeData fired, getChildren not yet called
    autoSetupCfg,     \* setting matlabWorkspace.autoSetupOnTerminalOpen
    autoSetupEnabled, \* its value when activate() read it
    terminals,        \* vscode.window.terminals, in order: [id, name]
    nextTid,          \* id of the next terminal to open
    setups,           \* per terminal id: the closure state of its auto-setup
    timers,           \* pending setTimeout/setInterval: [kind, id, rem]
    acts,             \* one record per command invocation
    sent,             \* every terminal.sendText call: [text, name, tid]
    clipboard         \* vscode.env.clipboard

envVars == <<hasFolder, fileWritable, extContent, refreshInterval>>

fileVars == <<workspaceFile, file>>

viewVars == <<view, refreshPending>>

cfgVars == <<autoSetupCfg, autoSetupEnabled>>

termVars == <<terminals, nextTid>>

cmdVars == <<acts, sent, clipboard>>

vars == <<phase, envVars, fileVars, viewVars, cfgVars, termVars, setups, timers, cmdVars>>

(***************************************************************************)
(* Timing: the delays of the code, in milliseconds, counted in ticks.      *)
(***************************************************************************)
TickMs == 500

ExportDelayMs == 500

RefreshDelayMs == 1000

DefaultRefreshIntervalMs == 2000

SetupBaseDelayMs == 2000

SetupStepDelayMs == 1000

CleanupDelayMs == 60000

maxAttempts == 10

Ticks(ms) == ms \div TickMs

\* const delay = 2000 + (attemptCount * 1000)
SetupDelay(attemptCount) == SetupBaseDelayMs + attemptCount * SetupStepDelayMs

Timer(kind, id, ms) == [kind |-> kind, id |-> id, rem |-> Ticks(ms)]

NoView == [status |-> "none", items |-> <<>>, vars |-> JUndef, src |-> FileMissing,
           wsFile |-> "null"]

SetupNone == [state |-> "none", name |-> <<>>, setupComplete |-> FALSE,
              attemptCount |-> 0, watcher |-> "none", sends |-> 0,
              successShown |-> FALSE, disabled |-> FALSE, promptOpen |-> FALSE,
              warned |-> FALSE, warnOpen |-> FALSE]

(***************************************************************************)
(* MatlabConnection constructor / initialize                               *)
(***************************************************************************)
\* A plausible bug: the stale file is left as it is
InitializeFileKeep(folder, f, writable) == f

\* The snapshot file after initialize(): an existing file is overwritten
\* with an empty variables list; a failing write is caught and logged.
InitializeFile(folder, f, writable) ==
    IF folder /\ f.kind # "missing" /\ writable THEN FileCleared ELSE f

\* setInterval(() => workspaceProvider.refresh(), refreshInterval)
IntervalTimers(interval) ==
    IF interval > 0 THEN {Timer("interval", 0, interval)} ELSE {}

\* activate(): the connection is constructed (initialize runs synchronously up
\* to its first await), the tree view and the commands are registered, the
\* auto-refresh interval is started and the terminal listener is registered
\* when the setting is on.
Activate ==
    /\ phase = "inactive"
    /\ phase' = "active"
    /\ workspaceFile' = IF hasFolder THEN "set" ELSE "null"
    /\ file' = InitializeFile(hasFolder, file, fileWritable)
    /\ timers' = timers \cup IntervalTimers(refreshInterval)
    /\ autoSetupEnabled' = autoSetupCfg
    /\ refreshPending' = TRUE
    /\ UNCHANGED <<envVars, view, autoSetupCfg, termVars, setups, cmdVars>>

(***************************************************************************)
(* The tree view                                                           *)
(***************************************************************************)
\* VS Code asks the provider for the root entries
ViewOf(wsFile, f) ==
    LET r == getChildren(wsFile, f)
    IN  [status |-> r.status, items |-> r.items, vars |-> r.vars,
         src |-> f, wsFile |-> wsFile]

GetChildren ==
    /\ phase = "active"
    /\ view' = ViewOf(workspaceFile, file)
    /\ refreshPending' = FALSE
    /\ UNCHANGED <<phase, envVars, fileVars, cfgVars, termVars, setups, timers, cmdVars>>

\* Command matlabWorkspace.refresh: workspaceProvider.refresh()
RefreshCmd ==
    /\ phase = "active"
    /\ refreshPending' = TRUE
    /\ UNCHANGED <<phase, envVars, fileVars, view, cfgVars, termVars, setups, timers, cmdVars>>

(***************************************************************************)
(* The MATLAB session exports its workspace                                *)
(***************************************************************************)
\* watcher.onDidChange handler of one auto-setup (change events only: a file
\* that did not exist before raises onDidCreate, which nobody listens to here)
\* A plausible bug: success is announced but setupComplete is not set
OnDidChangeNoFlag(s) ==
    IF s.watcher = "active" /\ ~s.setupComplete
    THEN [s EXCEPT !.successShown = TRUE, !.watcher = "disposed"]
    ELSE s

OnDidChange(s) ==
    IF s.watcher = "active" /\ ~s.setupComplete
    THEN [s EXCEPT !.setupComplete = TRUE, !.successShown = TRUE, !.watcher = "disposed"]
    ELSE s

ExternalWrite ==
    /\ file' = extContent
    /\ setups' = IF file.kind = "missing" THEN setups
                 ELSE [t \in DOMAIN setups |-> OnDidChange(setups[t])]
    /\ UNCHANGED <<phase, envVars, workspaceFile, viewVars, cfgVars, termVars, timers, cmdVars>>

(***************************************************************************)
(* Before activation                                                       *)
(***************************************************************************)
InitCommon ==
    /\ phase = "inactive"
    /\ hasFolder \in BOOLEAN
    /\ fileWritable \in BOOLEAN
    /\ workspaceFile = "null"
    /\ file \in StaleFiles
    /\ view = NoView
    /\ refreshPending = FALSE
    /\ autoSetupEnabled = FALSE
    /\ terminals = <<>>
    /\ nextTid = 1
    /\ setups = <<>>
    /\ timers = {}
    /\ acts = <<>>
    /\ sent = {}
    /\ clipboard = <<>>

InitView ==
    /\ InitCommon
    /\ extContent \in ViewContents
    /\ refreshInterval \in {0, DefaultRefreshIntervalMs}
    /\ autoSetupCfg = TRUE


(***************************************************************************)
(* Terminals and the text sent to them                                     *)
(***************************************************************************)
MaxTerminals == 2

MaxCommands == 1

MaxSetups == 1

AgeCap == 3

UpperCase == <<"A", "B", "C", "D", "E", "F", "G", "H", "I", "J", "K", "L", "M", "N", "O", "P", "Q", "R", "S", "T", "U", "V", "W", "X", "Y", "Z">>

LowerCase == <<"a", "b", "c", "d", "e", "f", "g", "h", "i", "j", "k", "l", "m", "n", "o", "p", "q", "r", "s", "t", "u", "v", "w", "x", "y", "z">>

ToLowerChar(c) == IF \E i \in 1..26 : UpperCase[i] = c
                  THEN LowerCase[CHOOSE i \in 1..26 : UpperCase[i] = c]
                  ELSE c

\* String.prototype.toLowerCase
ToLower(s) == [i \in 1..Len(s) |-> ToLowerChar(s[i])]

\* String.prototype.includes
Includes(s, sub) ==
    \E i \in 0..(Len(s) - Len(sub)) : SubSeq(s, i + 1, i + Len(sub)) = sub

S_matlab == <<"m", "a", "t", "l", "a", "b">>

\* t.name.toLowerCase().includes('matlab')
IsMatlabName(name) == Includes(ToLower(name), S_matlab)

\* A plausible bug: fall back to the first terminal when none matches
MatlabTerminalIndexOrFirst(ts) ==
    IF \E i \in 1..Len(ts) : IsMatlabName(ts[i].name)
    THEN CHOOSE i \in 1..Len(ts) :
            /\ IsMatlabName(ts[i].name)
            /\ \A k \in 1..(i - 1) : ~IsMatlabName(ts[k].name)
    ELSE IF Len(ts) > 0 THEN 1 ELSE 0

\* terminals.find(t => t.name.toLowerCase().includes('matlab')): the index of
\* the first match, 0 for undefined
MatlabTerminalIndex(ts) ==
    IF \E i \in 1..Len(ts) : IsMatlabName(ts[i].name)
    THEN CHOOSE i \in 1..Len(ts) :
            /\ IsMatlabName(ts[i].name)
            /\ \A k \in 1..(i - 1) : ~IsMatlabName(ts[k].name)
    ELSE 0

N_MatLab == <<"m", "y", " ", "M", "a", "t", "L", "a", "b">>

N_matlib == <<"m", "a", "t", "l", "i", "b">>

\* Names of the terminals the user opens: with and without "matlab" in them
MatlabNames == {N_MatLab}

OtherNames == {N_matlib}

TerminalNames == MatlabNames \cup OtherNames

T_clearAll == <<"c", "l", "e", "a", "r", " ", "a", "l", "l">>

T_clearPrefix == <<"c", "l", "e", "a", "r", " ">>

T_export == <<"a", "d", "d", "p", "a", "t", "h", "(", "'", ".", "v", "s", "c", "o", "d", "e", "'", ")", ";", " ", "e", "x", "p", "o", "r", "t", "_", "w", "o", "r", "k", "s", "p", "a", "c", "e", "(", ")", ";">>

T_setup == <<"a", "d", "d", "p", "a", "t", "h", "(", "'", ".", "v", "s", "c", "o", "d", "e", "'", ")", ";", " ", "s", "e", "t", "u", "p", "_", "a", "u", "t", "o", "_", "e", "x", "p", "o", "r", "t">>

\* A plausible bug: the blank between the command and the name is lost
ClearTextNoBlank(variableName) == <<"c", "l", "e", "a", "r">> \o variableName

\* `clear ${variableName}`
ClearText(variableName) == T_clearPrefix \o variableName

Sent(text, term) == [text |-> text, name |-> term.name, tid |-> term.id]

(***************************************************************************)
(* Command invocations.  Each keeps the calls it made into MatlabConnection *)
(* (clearWorkspace, deleteVariable, triggerWorkspaceExport), the messages  *)
(* it showed and the age, in ticks, at which things happened.              *)
(***************************************************************************)
\* One call: matlabOpen records whether a terminal named like MATLAB was
\* open when the call ran; texts are the lines it sent; scheduled counts the
\* timers it armed; infoOpen is its unanswered information message; to is the
\* id of the terminal the text went to (0 when nothing was sent).
Call(fn, ts, at, texts, scheduled, msgs, infoOpen) ==
    [fn |-> fn,
     matlabOpen |-> \E i \in 1..Len(ts) : ts[i].name \in MatlabNames,
     to |-> IF texts = <<>> THEN 0 ELSE ts[MatlabTerminalIndex(ts)].id,
     at |-> at, texts |-> texts, scheduled |-> scheduled, msgs |-> msgs,
     infoOpen |-> infoOpen]

Act(kind, name, label, stage, msgs) ==
    [kind |-> kind, name |-> name, label |-> label, stage |-> stage, age |-> 0,
     calls |-> <<>>, refreshAt |-> -1, msgs |-> msgs]

\* MatlabConnection.triggerWorkspaceExport up to its first await, as a call
\* record and the text it sends
TriggerCall(folder, ts, at) ==
    LET i == MatlabTerminalIndex(ts)
    IN  IF ~folder
        THEN [call |-> Call("triggerWorkspaceExport", ts, at, <<>>, 0,
                            {"No workspace folder open"}, FALSE),
              sent |-> {}]
        ELSE IF i = 0
        THEN [call |-> Call("triggerWorkspaceExport", ts, at, <<>>, 0,
                            {"No MATLAB terminal found. Please run MATLAB in the VSCode terminal first."}, TRUE),
              sent |-> {}]
        ELSE [call |-> Call("triggerWorkspaceExport", ts, at, <<T_export>>, 0,
                            {"Workspace export command sent to MATLAB"}, FALSE),
              sent |-> {Sent(T_export, ts[i])}]

\* A plausible bug: the export that follows the clear command is never armed
ClearCallNoExport(fn, text, ts, id) ==
    LET i == MatlabTerminalIndex(ts)
    IN  IF i = 0
        THEN [call |-> Call(fn, ts, 0, <<>>, 0, {"No MATLAB terminal found"}, FALSE),
              sent |-> {}, timers |-> {}]
        ELSE [call |-> Call(fn, ts, 0, <<text>>, 1, {}, FALSE),
              sent |-> {Sent(text, ts[i])},
              timers |-> {}]

\* MatlabConnection.clearWorkspace / deleteVariable: the text is sent to the
\* first MATLAB terminal and the export is armed ExportDelayMs later
ClearCall(fn, text, ts, id) ==
    LET i == MatlabTerminalIndex(ts)
    IN  IF i = 0
        THEN [call |-> Call(fn, ts, 0, <<>>, 0, {"No MATLAB terminal found"}, FALSE),
              sent |-> {}, timers |-> {}]
        ELSE [call |-> Call(fn, ts, 0, <<text>>, 1, {}, FALSE),
              sent |-> {Sent(text, ts[i])},
              timers |-> {Timer("export", id, ExportDelayMs)}]

M_confirmClear == "Are you sure you want to clear all MATLAB workspace variables?"

M_deleted == "Deleted variable: ${item.variableName}"

M_copied == "Copied: ${item.value}"

M_instructions == "MATLAB Workspace Viewer Setup"

\* The argument VS Code passes to an item command: a tree item of the view, or
\* nothing when the command is run from the command palette
CommandArgs ==
    {[given |-> TRUE, item |-> view.items[k]] : k \in 1..Len(view.items)}
    \cup {[given |-> FALSE, item |-> PlaceholderItem]}

ArgLabel(arg) == IF arg.given THEN arg.item.label ELSE <<>>

SetAct(i, a) == [acts EXCEPT ![i] = a]

\* Command matlabWorkspace.clearAll, up to the await of the warning prompt
ClearAllCmd ==
    /\ phase = "active"
    /\ Len(acts) < MaxCommands
    /\ acts' = Append(acts, Act("clearAll", <<>>, <<>>, "confirm", {M_confirmClear}))
    /\ UNCHANGED <<phase, envVars, fileVars, viewVars, cfgVars, termVars, setups, timers,
                   sent, clipboard>>

\* The user answers the prompt ("undefined" is a dismissed prompt); on "Yes":
\* await clearWorkspace(); workspaceProvider.refresh()
AnswerConfirm(i, result) ==
    /\ acts[i].kind = "clearAll"
    /\ acts[i].stage = "confirm"
    /\ IF result = "Yes"
       THEN LET c == ClearCall("clearWorkspace", T_clearAll, terminals, i)
            IN  /\ acts' = SetAct(i, [acts[i] EXCEPT !.stage = "done",
                                                     !.calls = <<c.call>>,
                                                     !.refreshAt = 0])
                /\ sent' = sent \cup c.sent
                /\ timers' = timers \cup c.timers
                /\ refreshPending' = TRUE
       ELSE /\ acts' = SetAct(i, [acts[i] EXCEPT !.stage = "declined"])
            /\ UNCHANGED <<sent, timers, refreshPending>>
    /\ UNCHANGED <<phase, envVars, fileVars, view, cfgVars, termVars, setups, clipboard>>

\* Command matlabWorkspace.deleteVariable
DeleteVariableCmd(arg) ==
    /\ phase = "active"
    /\ Len(acts) < MaxCommands
    /\ IF arg.given /\ arg.item.hasName /\ arg.item.variableName # <<>>
       THEN LET id == Len(acts) + 1
                c == ClearCall("deleteVariable", ClearText(arg.item.variableName),
                               terminals, id)
            IN  /\ acts' = Append(acts,
                              [Act("deleteVariable", arg.item.variableName, ArgLabel(arg),
                                   "done", {M_deleted})
                                  EXCEPT !.calls = <<c.call>>, !.refreshAt = 0])
                /\ sent' = sent \cup c.sent
                /\ timers' = timers \cup c.timers
                /\ refreshPending' = TRUE
       ELSE /\ acts' = Append(acts, Act("deleteVariable", <<>>, ArgLabel(arg), "ignored", {}))
            /\ UNCHANGED <<sent, timers, refreshPending>>
    /\ UNCHANGED <<phase, envVars, fileVars, view, cfgVars, termVars, setups, clipboard>>

\* Command matlabWorkspace.copyValue
CopyValueCmd(arg) ==
    /\ phase = "active"
    /\ Len(acts) < MaxCommands
    /\ IF arg.given /\ arg.item.value # <<>>
       THEN /\ acts' = Append(acts, Act("copyValue", arg.item.variableName, ArgLabel(arg),
                                        "done", {M_copied}))
            /\ clipboard' = arg.item.value
       ELSE /\ acts' = Append(acts, Act("copyValue", <<>>, ArgLabel(arg), "ignored", {}))
            /\ UNCHANGED clipboard
    /\ UNCHANGED <<phase, envVars, fileVars, viewVars, cfgVars, termVars, setups, timers, sent>>

\* Command matlabWorkspace.exportNow: await triggerWorkspaceExport(), then
\* setTimeout(() => workspaceProvider.refresh(), 1000).  The await ends at
\* once unless the "No MATLAB terminal found" message is open.
ExportNowCmd ==
    /\ phase = "active"
    /\ Len(acts) < MaxCommands
    /\ LET id == Len(acts) + 1
           c == TriggerCall(hasFolder, terminals, 0)
       IN  /\ acts' = Append(acts,
                         [Act("exportNow", <<>>, <<>>,
                              IF c.call.infoOpen THEN "info" ELSE "done", {})
                             EXCEPT !.calls = <<c.call>>])
           /\ sent' = sent \cup c.sent
           /\ timers' = IF c.call.infoOpen THEN timers
                        ELSE timers \cup {Timer("refresh", id, RefreshDelayMs)}
    /\ UNCHANGED <<phase, envVars, fileVars, viewVars, cfgVars, termVars, setups, clipboard>>

\* The user answers the "No MATLAB terminal found" message of call j of
\* invocation i; "Show Instructions" opens the setup panel.  An awaiting
\* exportNow handler then arms its refresh.
AnswerInfo(i, j, selection) ==
    /\ acts[i].calls[j].infoOpen
    /\ LET a == acts[i]
           shown == IF selection = "Show Instructions" THEN {M_instructions} ELSE {}
           awaited == a.kind = "exportNow"
       IN  /\ acts' = SetAct(i, [a EXCEPT !.calls[j].infoOpen = FALSE,
                                          !.calls[j].msgs = @ \cup shown,
                                          !.stage = IF awaited THEN "done" ELSE @])
           /\ timers' = IF awaited THEN timers \cup {Timer("refresh", i, RefreshDelayMs)}
                        ELSE timers
    /\ UNCHANGED <<phase, envVars, fileVars, viewVars, cfgVars, termVars, setups, sent,
                   clipboard>>

(***************************************************************************)
(* Timers                                                                  *)
(***************************************************************************)
Due(kind) == {tm \in timers : tm.kind = kind /\ tm.rem = 0}

\* setInterval callback: workspaceProvider.refresh()
FireInterval ==
    /\ \E tm \in Due("interval") :
          timers' = (timers \ {tm}) \cup IntervalTimers(refreshInterval)
    /\ refreshPending' = TRUE
    /\ UNCHANGED <<phase, envVars, fileVars, view, cfgVars, termVars, setups, cmdVars>>

\* The 500 ms timer of clearWorkspace / deleteVariable:
\* this.triggerWorkspaceExport(), not awaited
FireExport ==
    \E tm \in Due("export") :
        LET i == tm.id
            c == TriggerCall(hasFolder, terminals, acts[i].age)
        IN  /\ acts' = SetAct(i, [acts[i] EXCEPT !.calls = Append(@, c.call)])
            /\ sent' = sent \cup c.sent
            /\ timers' = timers \ {tm}
            /\ UNCHANGED <<phase, envVars, fileVars, viewVars, cfgVars, termVars, setups,
                           clipboard>>

\* The 1000 ms timer of exportNow: workspaceProvider.refresh()
FireRefresh ==
    \E tm \in Due("refresh") :
        /\ acts' = SetAct(tm.id, [acts[tm.id] EXCEPT !.refreshAt = acts[tm.id].age])
        /\ refreshPending' = TRUE
        /\ timers' = timers \ {tm}
        /\ UNCHANGED <<phase, envVars, fileVars, view, cfgVars, termVars, setups, sent,
                       clipboard>>

HasTimer(i) == \E tm \in timers : tm.kind \in {"export", "refresh"} /\ tm.id = i

Min(S) == CHOOSE x \in S : \A y \in S : x <= y

\* Time passes until the next timer is due; a due timer fires before time
\* moves on.  The user and the MATLAB session act at these instants, before
\* or after the timers that are due then.
Tick ==
    /\ timers # {}
    /\ \A tm \in timers : tm.rem > 0
    /\ LET d == Min({tm.rem : tm \in timers})
       IN  /\ timers' = {[tm EXCEPT !.rem = @ - d] : tm \in timers}
           /\ acts' = [i \in 1..Len(acts) |->
                          IF HasTimer(i)
                          THEN [acts[i] EXCEPT !.age = Min({@ + d, AgeCap})]
                          ELSE acts[i]]
    /\ UNCHANGED <<phase, envVars, fileVars, viewVars, cfgVars, termVars, setups, sent,
                   clipboard>>

(***************************************************************************)
(* Auto-setup of a MATLAB terminal (onDidOpenTerminal)                     *)
(***************************************************************************)
\* A plausible bug: the attempt limit is never looked at
trySendSetupNoLimit(s, tid) ==
    IF s.setupComplete
    THEN [s |-> [s EXCEPT !.watcher = "disposed", !.state = "ended"], timers |-> {}]
    ELSE [s |-> [s EXCEPT !.attemptCount = @ + 1],
          timers |-> {Timer("retry", tid, SetupDelay(s.attemptCount + 1))}]

\* trySendSetup(): give up (with the warning when setup never completed) or
\* count the attempt and arm the timer that sends the command
trySendSetup(s, tid) ==
    IF s.setupComplete \/ s.attemptCount >= maxAttempts
    THEN [s |-> [s EXCEPT !.watcher = "disposed",
                          !.state = "ended",
                          !.warned = ~s.setupComplete /\ s.attemptCount >= maxAttempts,
                          !.warnOpen = ~s.setupComplete /\ s.attemptCount >= maxAttempts],
          timers |-> {}]
    ELSE [s |-> [s EXCEPT !.attemptCount = @ + 1],
          timers |-> {Timer("retry", tid, SetupDelay(s.attemptCount + 1))}]

\* The auto-setups started so far
SetupsStarted == Cardinality({k \in 1..Len(setups) : setups[k].state # "none"})

\* The user opens a terminal.  The listener exists when the setting was on at
\* activation; config.get is read from the configuration object taken at
\* activation, which may or may not reflect a later update.
OpenTerminal(name) ==
    /\ nextTid <= MaxTerminals
    /\ terminals' = Append(terminals, [id |-> nextTid, name |-> name])
    /\ nextTid' = nextTid + 1
    /\ \E shouldAutoSetup \in {autoSetupEnabled, autoSetupCfg} :
          IF /\ phase = "active"
             /\ autoSetupEnabled
             /\ IsMatlabName(name)
             /\ shouldAutoSetup
             /\ hasFolder
          THEN LET r == trySendSetup([SetupNone EXCEPT !.state = "running",
                                                       !.watcher = "active",
                                                       !.name = name], nextTid)
               IN  /\ SetupsStarted < MaxSetups
                   /\ setups' = Append(setups, r.s)
                   /\ timers' = timers \cup r.timers
                                \cup {Timer("cleanup", nextTid, CleanupDelayMs)}
          ELSE /\ setups' = Append(setups, [SetupNone EXCEPT !.name = name])
               /\ UNCHANGED timers
    /\ UNCHANGED <<phase, envVars, fileVars, viewVars, cfgVars, cmdVars>>

\* The user closes a terminal: it leaves vscode.window.terminals
CloseTerminal(i) ==
    /\ terminals' = [k \in 1..(Len(terminals) - 1) |->
                        IF k < i THEN terminals[k] ELSE terminals[k + 1]]
    /\ UNCHANGED <<phase, envVars, fileVars, viewVars, cfgVars, nextTid, setups, timers,
                   cmdVars>>

\* The retry timer: send the setup command unless setup completed, show the
\* "Waiting for MATLAB" message on the first attempt, and try again
FireRetry ==
    \E tm \in Due("retry") :
        LET tid == tm.id
            s == setups[tid]
        IN  /\ IF ~s.setupComplete
               THEN LET r == trySendSetup([s EXCEPT !.sends = @ + 1,
                                                   !.promptOpen = @ \/ s.attemptCount = 1],
                                          tid)
                    IN  /\ sent' = sent \cup {[text |-> T_setup, name |-> s.name, tid |-> tid]}
                        /\ setups' = [setups EXCEPT ![tid] = r.s]
                        /\ timers' = (timers \ {tm}) \cup r.timers
               ELSE /\ setups' = [setups EXCEPT ![tid].state = "ended"]
                    /\ timers' = timers \ {tm}
                    /\ UNCHANGED sent
            /\ UNCHANGED <<phase, envVars, fileVars, viewVars, cfgVars, termVars, acts,
                           clipboard>>

\* "Clean up after 60 seconds regardless"
FireCleanup ==
    \E tm \in Due("cleanup") :
        /\ setups' = [setups EXCEPT ![tm.id].watcher = "disposed"]
        /\ timers' = timers \ {tm}
        /\ UNCHANGED <<phase, envVars, fileVars, viewVars, cfgVars, termVars, cmdVars>>

\* The user answers the "Waiting for MATLAB to start..." message
AnswerPrompt(tid, selection) ==
    /\ setups[tid].promptOpen
    /\ IF selection = "Disable Auto-Setup"
       THEN /\ setups' = [setups EXCEPT ![tid].promptOpen = FALSE,
                                        ![tid].setupComplete = TRUE,
                                        ![tid].disabled = TRUE]
            /\ autoSetupCfg' = FALSE
       ELSE /\ setups' = [setups EXCEPT ![tid].promptOpen = FALSE]
            /\ UNCHANGED autoSetupCfg
    /\ UNCHANGED <<phase, envVars, fileVars, viewVars, autoSetupEnabled, termVars, timers,
                   cmdVars>>

\* The user answers the "Auto-setup may have failed" warning
AnswerWarning(tid, selection) ==
    /\ setups[tid].warnOpen
    /\ setups' = [setups EXCEPT ![tid].warnOpen = FALSE]
    /\ clipboard' = IF selection = "Copy Command" THEN T_setup ELSE clipboard
    /\ UNCHANGED <<phase, envVars, fileVars, viewVars, cfgVars, termVars, timers, acts, sent>>

(***************************************************************************)
(* The read path on its own: activation, exports, refreshes, root reads.   *)
(***************************************************************************)
NextView ==
    \/ Activate
    \/ ExternalWrite
    \/ GetChildren
    \/ RefreshCmd
    \/ FireInterval
    \/ Tick

SpecView == InitView /\ [][NextView]_vars

(***************************************************************************)
(* The extension in use: it was activated, the MATLAB session has exported *)
(* a snapshot and the view has read it.  From there the user runs commands *)
(* and opens and closes terminals, MATLAB exports again, timers fire.      *)
(***************************************************************************)
Init ==
    /\ phase = "active"
    /\ hasFolder \in BOOLEAN
    /\ fileWritable = TRUE
    /\ extContent \in CmdContents
    /\ refreshInterval = 0
    /\ workspaceFile = IF hasFolder THEN "set" ELSE "null"
    /\ file = extContent
    /\ view = ViewOf(workspaceFile, file)
    /\ refreshPending = FALSE
    /\ autoSetupCfg \in BOOLEAN
    /\ autoSetupEnabled = autoSetupCfg
    /\ terminals = <<>>
    /\ nextTid = 1
    /\ setups = <<>>
    /\ timers = {}
    /\ acts = <<>>
    /\ sent = {}
    /\ clipboard = <<>>

Next ==
    \/ ExternalWrite
    \/ ClearAllCmd
    \/ \E i \in 1..Len(acts) : \E r \in {"Yes", "No", "undefined"} : AnswerConfirm(i, r)
    \/ \E arg \in CommandArgs : DeleteVariableCmd(arg)
    \/ \E arg \in CommandArgs : CopyValueCmd(arg)
    \/ ExportNowCmd
    \/ \E i \in 1..Len(acts) : \E j \in 1..Len(acts[i].calls) :
          \E sel \in {"Show Instructions", "undefined"} : AnswerInfo(i, j, sel)
    \/ \E name \in TerminalNames : OpenTerminal(name)
    \/ \E i \in 1..Len(terminals) : CloseTerminal(i)
    \/ \E tid \in 1..Len(setups) :
          \E sel \in {"Disable Auto-Setup", "undefined"} : AnswerPrompt(tid, sel)
    \/ \E tid \in 1..Len(setups) :
          \E sel \in {"Copy Command", "undefined"} : AnswerWarning(tid, sel)
    \/ FireExport
    \/ FireRefresh
    \/ FireRetry
    \/ FireCleanup
    \/ Tick

Spec == Init /\ [][Next]_vars

(***************************************************************************)
(* Auto-setup on its own, from activation on, with timers that do fire.    *)
(***************************************************************************)
InitSetup ==
    /\ InitCommon
    /\ extContent \in CmdContents
    /\ refreshInterval = 0
    /\ autoSetupCfg = TRUE

NextSetup ==
    \/ Activate
    \/ ExternalWrite
    \/ \E name \in TerminalNames : OpenTerminal(name)
    \/ \E i \in 1..Len(terminals) : CloseTerminal(i)
    \/ \E tid \in 1..Len(setups) :
          \E sel \in {"Disable Auto-Setup", "undefined"} : AnswerPrompt(tid, sel)
    \/ \E tid \in 1..Len(setups) :
          \E sel \in {"Copy Command", "undefined"} : AnswerWarning(tid, sel)
    \/ FireRetry
    \/ FireCleanup
    \/ Tick

\* The event loop runs every timer that is due, and time does not stop
SetupSpec ==
    /\ InitSetup
    /\ [][NextSetup]_vars
    /\ WF_vars(Tick)
    /\ WF_vars(FireRetry)
    /\ WF_vars(FireCleanup)

(***************************************************************************)
(* Properties of the read path (checked under SpecView)                    *)
(***************************************************************************)
\* The last root read happened and read a well-formed snapshot file
ReadWellFormed ==
    /\ view.status # "none"
    /\ view.wsFile = "set"
    /\ WellFormed(view.src)

SrcRecords == view.src.variables.a

OneEntryPerRecord ==
    /\ view.status = "ok"
    /\ Len(view.items) = Len(SrcRecords)
    /\ \A i \in 1..Len(SrcRecords) : view.items[i].label = SrcRecords[i].name

\* C1 as stated: for any well-formed snapshot file the root shows as many
\* entries as the variables array has records, one per record, in the same
\* order, labelled with the record's name.
C1_CountEqualsLength == ReadWellFormed => OneEntryPerRecord

\* C1 amended: for any well-formed snapshot file whose variables array is not
\* empty, the root shows one entry per record, in the same order, labelled
\* with the record's name.
C1_CountEqualsLengthNonEmpty ==
    (ReadWellFormed /\ Len(SrcRecords) > 0) => OneEntryPerRecord

C1_Witness ==
    /\ ReadWellFormed
    /\ view.status = "ok"
    /\ Len(SrcRecords) = MaxVars
    /\ SrcRecords[1] # SrcRecords[2]
    /\ Len(view.items) = MaxVars

\* C2: a missing or unparsable snapshot file yields no variable entry and no
\* thrown error: getWorkspaceVariables returned an empty list and getChildren
\* completed normally.
C2_MissingOrUnparsableIsEmpty ==
    (/\ view.status # "none"
     /\ view.wsFile = "set"
     /\ view.src.kind \in {"missing", "garbage"})
    => /\ view.status = "ok"
       /\ view.vars = JArr(<<>>)
       /\ \A i \in 1..Len(view.items) : view.items[i].contextValue # "variable"

C2_Witness ==
    /\ view.status = "ok"
    /\ view.wsFile = "set"
    /\ view.src.kind = "garbage"

\* The entry shown for record i carries a description
Described(i) == view.items[i].hasDescription

IsText(rec) == rec.class \in TextClasses /\ rec.value.t = "str"

TextDescriptionOk(i) ==
    LET s == SrcRecords[i].value.s
    IN  /\ Described(i)
        /\ Len(s) <= 100 => view.items[i].description = s
        /\ Len(s) > 100 => view.items[i].description = SubSeq(s, 1, 97) \o Ellipsis

\* C4 as stated (names are MATLAB identifiers, so the statement is read for
\* records with a non-empty name): every record of a text class shows its value verbatim when
\* the value has at most 100 characters, and its first 97 characters followed
\* by "..." when it is longer.
C4_TextVerbatimOrTruncated ==
    (ReadWellFormed /\ view.status = "ok")
    => \A i \in 1..Len(SrcRecords) :
          (IsText(SrcRecords[i]) /\ SrcRecords[i].name # <<>>) => TextDescriptionOk(i)

\* C4 amended: the same, for records with a non-empty name and a non-empty
\* value.
C4_NonEmptyTextVerbatimOrTruncated ==
    (ReadWellFormed /\ view.status = "ok")
    => \A i \in 1..Len(SrcRecords) :
          (/\ IsText(SrcRecords[i])
           /\ SrcRecords[i].name # <<>>
           /\ SrcRecords[i].value.s # <<>>) => TextDescriptionOk(i)

C4_Witness ==
    /\ ReadWellFormed
    /\ view.status = "ok"
    /\ \E i \in 1..Len(SrcRecords) :
          /\ IsText(SrcRecords[i])
          /\ Len(SrcRecords[i].value.s) = 101
          /\ Len(view.items[i].description) = 100

IsNumeric(rec) == rec.class \in NumericClasses

HasScalarText(rec) == rec.value.t \in {"str", "num"}

Summary(dims, class) ==
    NumToStr(dims[1]) \o <<"x">> \o NumToStr(dims[2]) \o <<" ">> \o class

\* The value field is present and does not stringify to the empty text
NonEmptyValue(rec) ==
    \/ rec.value.t \in {"num", "arr"}
    \/ rec.value.t = "str" /\ rec.value.s # <<>>

\* C5 as stated (read for records with a non-empty name): a 1x1 numeric record shows its scalar value; an NxM numeric
\* record with N, M > 1 shows the summary "NxM <class>".
C5_ScalarValueOrSummary ==
    (ReadWellFormed /\ view.status = "ok")
    => \A i \in 1..Len(SrcRecords) : \A d \in SampleDims :
          LET rec == SrcRecords[i]
          IN  (IsNumeric(rec) /\ rec.size = Mat2Str(d) /\ rec.name # <<>>)
              => /\ (d = <<1, 1>> /\ HasScalarText(rec))
                    => (Described(i) /\ view.items[i].description = ToStr(rec.value))
                 /\ (d[1] > 1 /\ d[2] > 1)
                    => (Described(i) /\ view.items[i].description = Summary(d, rec.class))

\* C5 amended: the same, for records with a non-empty name whose value is
\* present and non-empty (and, for the scalar, at most 100 characters long).
C5_NonEmptyScalarValueOrSummary ==
    (ReadWellFormed /\ view.status = "ok")
    => \A i \in 1..Len(SrcRecords) : \A d \in SampleDims :
          LET rec == SrcRecords[i]
          IN  (/\ IsNumeric(rec)
               /\ rec.size = Mat2Str(d)
               /\ rec.name # <<>>
               /\ NonEmptyValue(rec))
              => /\ (d = <<1, 1>> /\ HasScalarText(rec) /\ Len(ToStr(rec.value)) <= 100)
                    => (Described(i) /\ view.items[i].description = ToStr(rec.value))
                 /\ (d[1] > 1 /\ d[2] > 1)
                    => (Described(i) /\ view.items[i].description = Summary(d, rec.class))

C5_Witness ==
    /\ ReadWellFormed
    /\ view.status = "ok"
    /\ \E i \in 1..Len(SrcRecords) :
          /\ IsNumeric(SrcRecords[i])
          /\ SrcRecords[i].size = Mat2Str(<<12, 10>>)
          /\ NonEmptyValue(SrcRecords[i])
          /\ view.items[i].description = Summary(<<12, 10>>, SrcRecords[i].class)

\* C6: whatever the snapshot file contains, getWorkspaceVariables returns an
\* array and the root read returns its entries without throwing.
C6_NothingFatal ==
    view.status # "none" => (view.status = "ok" /\ view.vars.t = "arr")


(***************************************************************************)
(* Properties of the commands and of the text sent to terminals (checked   *)
(* under Spec)                                                             *)
(***************************************************************************)
\* The view shows what it read from the snapshot {"variables": []}
EmptySnapshotRead ==
    /\ view.status # "none"
    /\ view.wsFile = "set"
    /\ view.src.kind = "json"
    /\ view.src.top = "obj"
    /\ view.src.variables = JArr(<<>>)

OnlyPlaceholderShown ==
    /\ view.status = "ok"
    /\ Len(view.items) = 1
    /\ view.items[1].label = S_NoVariables
    /\ ~view.items[1].hasName
    /\ view.items[1].contextValue # "variable"

OnPlaceholder(a) ==
    /\ a.kind \in {"deleteVariable", "copyValue"}
    /\ a.label = S_NoVariables

\* A step in which copy or delete is invoked on the placeholder entry
PlaceholderCommandStep ==
    /\ Len(acts') = Len(acts) + 1
    /\ OnPlaceholder(acts'[Len(acts')])

\* C3: after reading {"variables": []} the root of the view is exactly one
\* entry, labelled 'No variables in workspace', that is not a variable entry;
\* copy and delete invoked on it make no call, show no message, send nothing
\* to a terminal, arm no timer, fire no refresh and leave the clipboard alone.
C3_EmptyWorkspacePlaceholder ==
    /\ [](EmptySnapshotRead => OnlyPlaceholderShown)
    /\ [](\A i \in 1..Len(acts) :
             OnPlaceholder(acts[i]) =>
                /\ acts[i].stage = "ignored"
                /\ acts[i].calls = <<>>
                /\ acts[i].msgs = {}
                /\ acts[i].refreshAt = -1)
    /\ [][PlaceholderCommandStep =>
             UNCHANGED <<sent, clipboard, timers, refreshPending, file>>]_vars

\* Delete was invoked on the placeholder while a MATLAB terminal was open
C3_Witness ==
    /\ EmptySnapshotRead
    /\ \E i \in 1..Len(acts) : acts[i].kind = "deleteVariable" /\ OnPlaceholder(acts[i])
    /\ \E k \in 1..Len(terminals) : terminals[k].name \in MatlabNames

AllCalls == {acts[i].calls[j] : <<i, j>> \in {<<i, j>> \in (1..Len(acts)) \X (1..2) :
                                                  j <= Len(acts[i].calls)}}

\* C7: a call of clearWorkspace, deleteVariable or triggerWorkspaceExport made
\* while no open terminal is named like MATLAB sends no text, arms no export
\* timer and shows a message; every text ever sent went to a terminal whose
\* name contains 'matlab'.
C7_NoMatlabTerminalNothingSent ==
    /\ \A c \in AllCalls :
          ~c.matlabOpen => c.texts = <<>> /\ c.scheduled = 0 /\ c.msgs # {}
    /\ \A e \in sent : e.name \in MatlabNames

\* clear was sent, the MATLAB terminal was closed, and the export 500 ms
\* later found only the other terminal
C7_Witness ==
    /\ \E i \in 1..Len(acts) :
          /\ Len(acts[i].calls) = 2
          /\ acts[i].calls[1].texts # <<>>
          /\ acts[i].calls[2].fn = "triggerWorkspaceExport"
          /\ ~acts[i].calls[2].matlabOpen
    /\ \E k \in 1..Len(terminals) : terminals[k].name \in OtherNames


\* The command text of a clear all or delete went to a MATLAB terminal
CommandSent(a) ==
    /\ a.kind \in {"clearAll", "deleteVariable"}
    /\ a.calls # <<>>
    /\ a.calls[1].texts # <<>>

\* The export of invocation i is still to be sent, or was sent after its refresh
ExportAfterRefresh(i) ==
    \/ \E tm \in timers : tm.kind = "export" /\ tm.id = i
    \/ \E j \in 1..Len(acts[i].calls) :
          /\ acts[i].calls[j].fn = "triggerWorkspaceExport"
          /\ acts[i].calls[j].texts # <<>>
          /\ acts[i].calls[j].at > acts[i].refreshAt

\* C9: the refresh that follows a mutating action fires no earlier than a
\* fixed delay (500 ms at least) after the action, and not before the export
\* command of that action was sent.
C9_RefreshAfterDelayAndExport ==
    \A i \in 1..Len(acts) :
        (acts[i].refreshAt # -1 /\ (CommandSent(acts[i]) \/ acts[i].kind = "exportNow")) =>
            /\ acts[i].refreshAt >= Ticks(ExportDelayMs)
            /\ ~ExportAfterRefresh(i)

S_exportCall == <<"e", "x", "p", "o", "r", "t", "_", "w", "o", "r", "k", "s", "p", "a", "c", "e", "(", ")">>

\* The names of the variable entries delete was invoked on
DeletedNames == {acts[i].name : i \in {k \in 1..Len(acts) :
                                          /\ acts[k].kind = "deleteVariable"
                                          /\ acts[k].stage = "done"
                                          /\ acts[k].label = acts[k].name}}

\* C10 as stated: every line sent to a terminal calls export_workspace(), or
\* is `clear all`, or is `clear <name>` for an entry delete was invoked on.
C10_OnlyExportAndClearLines ==
    \A e \in sent :
        \/ Includes(e.text, S_exportCall)
        \/ e.text = T_clearAll
        \/ \E n \in DeletedNames : e.text = T_clearPrefix \o n

\* C10: every line sent to a terminal is `addpath('.vscode'); export_workspace();`,
\* `clear all`, `clear <name>` for an entry delete was invoked on, or - sent by
\* the auto-setup of a newly opened MATLAB terminal to that terminal -
\* `addpath('.vscode'); setup_auto_export`.
C10_OnlyExportClearAndSetupLines ==
    \A e \in sent :
        \/ e.text = T_export
        \/ e.text = T_clearAll
        \/ \E n \in DeletedNames : e.text = T_clearPrefix \o n
        \/ /\ e.text = T_setup
           /\ e.tid <= Len(setups)
           /\ setups[e.tid].sends > 0

\* A setup line, a `clear name` line and an export line were all sent
C10_Witness ==
    /\ \E e \in sent : e.text = T_setup
    /\ \E e \in sent : e.text = T_clearPrefix \o N_name
    /\ \E e \in sent : e.text = T_export


(***************************************************************************)
(* Properties of the auto-setup (checked under SetupSpec)                  *)
(***************************************************************************)
Running(tid) == tid <= Len(setups) /\ setups[tid].state = "running"

Ended(tid) == tid <= Len(setups) /\ setups[tid].state = "ended"

\* C8: the setup command is sent to one terminal at most maxAttempts (10)
\* times; a retry loop that was started ends; when it has ended, success was
\* detected, or the user disabled auto-setup, or the failure warning was shown
\* after the 10th send.
C8_SetupLoopBoundedAndEnds ==
    /\ [](\A tid \in 1..Len(setups) :
             /\ setups[tid].sends <= maxAttempts
             /\ Ended(tid) =>
                   \/ setups[tid].successShown
                   \/ setups[tid].disabled
                   \/ setups[tid].warned /\ setups[tid].sends = maxAttempts)
    /\ \A tid \in 1..MaxTerminals : Running(tid) ~> Ended(tid)

\* A loop that sent the command ten times and ended with the warning
C8_Witness ==
    \E tid \in 1..Len(setups) :
        /\ Ended(tid)
        /\ setups[tid].sends = maxAttempts
        /\ setups[tid].warned
        /\ ~setups[tid].successShown
        /\ ~setups[tid].disabled


(***************************************************************************)
(* Properties of clear all (checked under Spec)                            *)
(***************************************************************************)
\* clearAll invocations whose prompt was answered 'Yes'
Confirmed == {i \in 1..Len(acts) : acts[i].kind = "clearAll" /\ acts[i].stage = "done"}

\* C11: `clear all` is in the text sent to a terminal only when a clearAll
\* invocation was answered 'Yes'; a clearAll invocation that is waiting for
\* its answer, or was answered 'No' or dismissed, made no call and fired no
\* refresh.
C11_ClearAllOnlyAfterYes ==
    /\ (\E e \in sent : e.text = T_clearAll) => Confirmed # {}
    /\ \A i \in 1..Len(acts) :
          (acts[i].kind = "clearAll" /\ acts[i].stage # "done") =>
              acts[i].calls = <<>> /\ acts[i].refreshAt = -1


(***************************************************************************)
(* Properties of the startup clean-up (checked under SpecView)             *)
(***************************************************************************)
\* The last root read returned no variables, or read what the MATLAB session
\* wrote after activation
ReadIsFresh ==
    (view.status # "none" /\ view.wsFile = "set") =>
        view.vars = JArr(<<>>) \/ view.src = extContent

\* activate() runs in a folder that holds a snapshot file
ActivateOverFile ==
    /\ phase = "inactive"
    /\ phase' = "active"
    /\ hasFolder
    /\ file.kind # "missing"

Stopped(tid) == setups[tid].successShown \/ setups[tid].disabled

\* C13: from the moment success was detected for a terminal's auto-setup, or
\* 'Disable Auto-Setup' was chosen, no step sends the setup command to that
\* terminal or shows the failure warning for it; a setup whose success was
\* detected never has the warning.
C13_NoRetryAfterSuccessOrDisable ==
    /\ [][\A tid \in 1..Len(setups) :
             Stopped(tid) =>
                /\ setups'[tid].sends = setups[tid].sends
                /\ setups'[tid].warned = setups[tid].warned]_vars
    /\ [](\A tid \in 1..Len(setups) : setups[tid].successShown => ~setups[tid].warned)

\* A retry timer that was pending when success was detected has fired and
\* sent nothing
C13_Witness ==
    \E tid \in 1..Len(setups) :
        /\ setups[tid].successShown
        /\ Ended(tid)
        /\ setups[tid].sends > 0
        /\ setups[tid].sends < maxAttempts
        /\ ~setups[tid].warned


(***************************************************************************)
(* Properties of clear followed by export (checked under Spec)             *)
(***************************************************************************)
\* Invocations whose clearWorkspace / deleteVariable call found a MATLAB
\* terminal and sent its clear command
Cleared == {i \in 1..Len(acts) : CommandSent(acts[i])}

ExportArmed(i) == \E tm \in timers : tm.kind = "export" /\ tm.id = i

\* The armed export falls due ExportDelayMs after the clear command
ExportDueOnTime(i) ==
    \A tm \in timers :
        (tm.kind = "export" /\ tm.id = i) => acts[i].age + tm.rem = Ticks(ExportDelayMs)

\* The clear command was sent at once; one export is armed, or was triggered
\* once, ExportDelayMs after the clear command
ClearThenOneExport(i) ==
    LET a == acts[i]
    IN  /\ a.calls[1].at = 0
        /\ \E e \in sent : e.text = a.calls[1].texts[1] /\ e.tid = a.calls[1].to
        /\ \/ /\ ExportArmed(i)
              /\ Len(a.calls) = 1
              /\ ExportDueOnTime(i)
           \/ /\ ~ExportArmed(i)
              /\ Len(a.calls) = 2
              /\ a.calls[2].fn = "triggerWorkspaceExport"
              /\ a.calls[2].at = Ticks(ExportDelayMs)

ExportSent(i) == Len(acts[i].calls) = 2 /\ acts[i].calls[2].texts # <<>>

\* C14 as stated: a clear command that was sent is followed 500 ms later by
\* exactly one export call, and the export command is sent only if the
\* terminal that received the clear command is still open.
C14_ExportOnlyToClearedTerminal ==
    \A i \in Cleared :
        /\ ClearThenOneExport(i)
        /\ ExportSent(i) => acts[i].calls[2].to = acts[i].calls[1].to

\* C14: a clear command that was sent is followed 500 ms later by exactly one
\* export call; the export command is sent exactly when a folder is open and
\* some terminal named like MATLAB is open at that moment, be it the one that
\* received the clear command or another.
C14_ExportToFirstMatlabTerminal ==
    \A i \in Cleared :
        /\ ClearThenOneExport(i)
        /\ Len(acts[i].calls) = 2 =>
              (ExportSent(i) <=> (hasFolder /\ acts[i].calls[2].matlabOpen))

\* The terminal that received the clear command was closed and the export
\* went to another MATLAB terminal
C14_Witness ==
    \E i \in Cleared :
        /\ ExportSent(i)
        /\ acts[i].calls[2].to # acts[i].calls[1].to


(***************************************************************************)
(* Properties of success detection (checked under SetupSpec)               *)
(***************************************************************************)
\* The MATLAB session rewrites the existing snapshot file while the retry
\* loop of terminal tid is running and nothing has stopped it yet
ChangeWhileRetrying(tid) ==
    /\ ExternalWrite
    /\ file.kind # "missing"
    /\ Running(tid)
    /\ ~setups[tid].setupComplete

\* C15: a change of the snapshot file while the retry loop of a terminal is
\* running shows 'Auto-setup successful' for it, and the failure warning is
\* not shown for it.
C15_SuccessDetectedWhileLoopRuns ==
    /\ [][\A tid \in 1..Len(setups) :
             ChangeWhileRetrying(tid) =>
                setups'[tid].successShown /\ ~setups'[tid].warned]_vars
    /\ [](\A tid \in 1..Len(setups) : setups[tid].successShown => ~setups[tid].warned)


(***************************************************************************)
(* Properties of the delete message (checked under Spec)                   *)
(***************************************************************************)
\* C16: a deleteVariable invocation shows 'Deleted variable: <name>' only if
\* its deleteVariable call sent `clear <name>` to a MATLAB terminal; when the
\* call found no MATLAB terminal the invocation shows the error and not the
\* deletion message.
C16_DeletedMessageOnlyIfSent ==
    \A i \in 1..Len(acts) :
        (acts[i].kind = "deleteVariable" /\ M_deleted \in acts[i].msgs) =>
            /\ acts[i].calls # <<>>
            /\ acts[i].calls[1].texts = <<ClearText(acts[i].name)>>

====
